---- MODULE Spec2Model ----
(***************************************************************************)
(* Model of the Instagram content parser: item normalisation and content   *)
(* fetch (apify_client_wrapper.py), follower enrichment and viral scoring  *)
(* (data_processor.py) and the two pipelines that drive them (main.py,     *)
(* app.py).                                                                *)
(*                                                                         *)
(* Floats: engagement_rate is a Python float that round(.., 2) has put on  *)
(* the grid of hundredths, so the model stores it as an integer number of  *)
(* hundredths (5.2 is 520).  The arithmetic that leads to it is IEEE-754   *)
(* binary64, modelled exactly on 53-bit mantissas kept as limb sequences.  *)
(***************************************************************************)
EXTENDS Integers, Sequences, FiniteSets, TLC

VARIABLES
    pc,               \* where the program stands
    reels,            \* the list of ReelData the pipeline works on
    viral,            \* the list filter_viral_reels returned: references into reels
    config,           \* AppConfig of the run
    is_posts,         \* the mode filter_viral_reels is called with
    api_followers,    \* provider map handed to enrich_with_followers
    csv_followers,    \* override (CSV) map handed to enrich_with_followers
    before            \* reels as they were when the last call was entered

procVars == <<reels, viral, config, is_posts, api_followers, csv_followers, before>>

VARIABLES
    usernames,        \* the list of usernames of the run
    start_date,       \* the date window of the run
    end_date,
    content_type,     \* "Reels" or "Posts / Carousels"
    tz_offset,         \* offset of the local time zone, in seconds
    requests,         \* the provider calls issued so far, in order
    all_items,        \* the raw items received, concatenated
    origin,           \* origin[k]: position in all_items of the item behind reels[k]
    skipped           \* the counters the fetch logs

fetchVars ==
    <<usernames, start_date, end_date, content_type, tz_offset, requests, all_items, origin,
      skipped>>

VARIABLES
    pipeline,         \* "cli" for main(), "ui" for the run handler of app.py
    lookup,           \* how the follower lookup of the run went
    exported          \* the records handed to the export or display stage

runVars == <<pipeline, lookup, exported>>

vars == <<pc, procVars, fetchVars, runVars>>

(***************************************************************************)
(* IEEE-754 binary64 arithmetic (round to nearest, ties to even), as far   *)
(* as data_processor.calculate_engagement_rate uses it.                    *)
(* A natural number too wide for one integer is a sequence of MantLimbs    *)
(* limbs in base LimbBase, most significant first.  A positive double is   *)
(* [man, exp] with 2^52 <= man < 2^53 and the value man * 2^(exp - 52).    *)
(***************************************************************************)
LimbBase == 1024

LimbBits == 10

MantLimbs == 6

RECURSIVE Pow2(_)
Pow2(n) == IF n = 0 THEN 1 ELSE 2 * Pow2(n - 1)

Zeros(n) == [i \in 1..n |-> 0]

Abs(x) == IF x < 0 THEN 0 - x ELSE x

\* the three limbs of a natural number n < LimbBase^3
BigOf(n) ==
    << n \div (LimbBase * LimbBase), (n \div LimbBase) % LimbBase, n % LimbBase >>

RECURSIVE BigToInt(_, _)
BigToInt(a, acc) ==
    IF a = << >> THEN acc ELSE BigToInt(Tail(a), acc * LimbBase + Head(a))

\* a * k + c for a small factor k, on the same number of limbs
RECURSIVE MulSmall(_, _, _)
MulSmall(a, k, c) ==
    IF a = << >> THEN << >>
    ELSE LET n == Len(a)
             t == a[n] * k + c
         IN  Append(MulSmall(SubSeq(a, 1, n - 1), k, t \div LimbBase), t % LimbBase)

\* (r * LimbBase^Len(a) + a) divided by a small d: quotient and remainder
RECURSIVE DivSmall(_, _, _)
DivSmall(a, d, r) ==
    IF a = << >> THEN [quot |-> << >>, rem |-> r]
    ELSE LET cur  == r * LimbBase + Head(a)
             rest == DivSmall(Tail(a), d, cur % d)
         IN  [quot |-> <<cur \div d>> \o rest.quot, rem |-> rest.rem]

\* 2^52 as a mantissa: 4 * LimbBase^5
MantOne == <<4>> \o Zeros(MantLimbs - 1)

\* round quot + rem/d to the nearest integer, a tie to the even one, and
\* renormalise the mantissa when it reaches 2^53 = 8 * LimbBase^5
RoundToDouble(quot, rem, d, exp) ==
    LET odd == quot[Len(quot)] % 2 = 1
        up  == 2 * rem > d \/ (2 * rem = d /\ odd)
        man == IF up THEN MulSmall(quot, 1, 1) ELSE quot
    IN  IF man[1] = 8 THEN [man |-> MantOne, exp |-> exp + 1]
        ELSE [man |-> man, exp |-> exp]

\* scale n / d into [1, 2): the result has d <= n < 2d and n/d * 2^exp is
\* the quotient asked for
RECURSIVE Normalise(_, _, _)
Normalise(n, d, exp) ==
    IF n < d THEN Normalise(2 * n, d, exp - 1)
    ELSE IF n >= 2 * d THEN Normalise(n, 2 * d, exp + 1)
    ELSE [n |-> n, d |-> d, exp |-> exp]

\* the double n / d for integers n, d > 0: Python's int / int is the
\* correctly rounded quotient
FloatDiv(n, d) ==
    LET s   == Normalise(n, d, 0)
        \* s.n * 2^52 = (s.n * 4) * LimbBase^5; the quotient is below 2^53
        num == BigOf(s.n * 4) \o Zeros(5)
        q   == DivSmall(num, s.d, 0)
        man == SubSeq(q.quot, Len(num) - MantLimbs + 1, Len(num))
    IN  RoundToDouble(man, q.rem, s.d, s.exp)

\* the double f * 100: the exact product has 59 or 60 bits
FloatMul100(f) ==
    LET p == MulSmall(f.man, 100, 0)
        t == IF p[1] < 512 THEN 6 ELSE 7
        q == DivSmall(p, Pow2(t), 0)
    IN  RoundToDouble(q.quot, q.rem, Pow2(t), f.exp + t)

\* Python's round(f, 2) of a double 0 < f < 2^52, in hundredths: the
\* two-place decimal nearest to the exact value of f, an exact tie goes to
\* the even one (float.__round__ is correctly rounded)
PyRound2(f) ==
    LET p     == MulSmall(f.man, 100, 0)
        shift == 52 - f.exp
        limbs == (shift - 1) \div LimbBits
        bits  == shift - LimbBits * limbs
        pad   == Zeros(limbs + 1) \o p
        hi    == SubSeq(pad, 1, Len(pad) - limbs)
        lo    == SubSeq(pad, Len(pad) - limbs + 1, Len(pad))
        q     == DivSmall(hi, Pow2(bits), 0)
        h     == BigToInt(q.quot, 0)
        half  == Pow2(bits - 1)
        more  == \E i \in 1..Len(lo) : lo[i] # 0
        up    == q.rem > half \/ (q.rem = half /\ (more \/ h % 2 = 1))
    IN  IF up THEN h + 1 ELSE h

(***************************************************************************)
(* Python values                                                           *)
(***************************************************************************)
\* truth value of an int
Truthy(n) == n # 0

\* a or b, for ints
PyOr(a, b) == IF Truthy(a) THEN a ELSE b

\* d.get(k, default) for a dict kept as a function
Get(d, k, default) == IF k \in DOMAIN d THEN d[k] ELSE default

EmptyDict == << >>

\* every dict with keys among K and values in V
Dicts(K, V) == UNION { [D -> V] : D \in SUBSET K }

Range(s) == { s[i] : i \in DOMAIN s }

Reverse(s) == [i \in 1..Len(s) |-> s[Len(s) + 1 - i]]

\* taken_at = None
NoTime == [some |-> FALSE, day |-> 0, tod |-> 0]

\* models.ReelData with its defaults
ReelData(username, shortcode, url, taken_at, views, likes, comments, shares, caption) ==
    [ username        |-> username,
      follower_count  |-> 0,
      shortcode       |-> shortcode,
      url             |-> url,
      taken_at        |-> taken_at,
      views           |-> views,
      likes           |-> likes,
      comments        |-> comments,
      shares          |-> shares,
      engagement_rate |-> 0,
      caption         |-> caption ]

\* config.AppConfig, the fields the core reads
AppConfig(max_reels_per_profile, min_views, min_engagement_rate) ==
    [ max_reels_per_profile |-> max_reels_per_profile,
      min_views             |-> min_views,
      min_engagement_rate   |-> min_engagement_rate ]

(***************************************************************************)
(* data_processor.py                                                       *)
(***************************************************************************)
\* round((engagement / follower_count) * 100, 2) in hundredths, for
\* follower_count > 0; division, product and round() are odd functions
RoundedRate(engagement, follower_count) ==
    IF engagement = 0 THEN 0
    ELSE LET r == PyRound2(FloatMul100(FloatDiv(Abs(engagement), follower_count)))
         IN  IF engagement < 0 THEN 0 - r ELSE r

calculate_engagement_rate(reel) ==
    IF reel.follower_count <= 0 THEN 0
    ELSE LET engagement == reel.likes + reel.comments
         IN  RoundedRate(engagement, reel.follower_count)

\* mutant: the provider map is asked before the CSV map
enrich_provider_first(rs, counts, overrides) ==
    [ i \in 1..Len(rs) |->
        IF rs[i].follower_count > 0 THEN rs[i]
        ELSE [ rs[i] EXCEPT !.follower_count =
                 PyOr(Get(counts, rs[i].username, 0),
                      Get(overrides, rs[i].username, 0)) ] ]

\* rs: the list, mutated in place; counts: the provider map
\* (follower_counts); overrides: the CSV map (csv_followers)
enrich_with_followers(rs, counts, overrides) ==
    [ i \in 1..Len(rs) |->
        IF rs[i].follower_count > 0 THEN rs[i]
        ELSE [ rs[i] EXCEPT !.follower_count =
                 PyOr(Get(overrides, rs[i].username, 0),
                      Get(counts, rs[i].username, 0)) ] ]

\* list.sort(key=...) on a list of references into the records, key[r]
\* being the key of reference r: stable and ascending, so x goes behind
\* every element whose key is not larger
RECURSIVE InsertByKey(_, _, _)
InsertByKey(sorted, x, key) ==
    IF sorted = << >> THEN <<x>>
    ELSE IF key[x] < key[Head(sorted)] THEN <<x>> \o sorted
    ELSE <<Head(sorted)>> \o InsertByKey(Tail(sorted), x, key)

RECURSIVE SortByKey(_, _)
SortByKey(list, key) ==
    IF list = << >> THEN << >>
    ELSE InsertByKey(SortByKey(SubSeq(list, 1, Len(list) - 1), key), list[Len(list)], key)

\* mutant: sort ascending, then reverse; equal keys end up in reverse order
SortThenReverse(list, key) == Reverse(SortByKey(list, key))

\* list.sort(key=..., reverse=True): CPython reverses the list, sorts it
\* ascending and reverses it again, which keeps equal keys in their order
SortReverse(list, key) == Reverse(SortByKey(Reverse(list), key))

\* the list comprehension over reels: the references (positions in rs) of
\* the records kept, in list order
Comprehension(rs, keep) ==
    LET Kept(i) == keep[i]
    IN  SelectSeq([i \in 1..Len(rs) |-> i], Kept)

\* for reel in reels: reel.engagement_rate = calculate_engagement_rate(reel)
RECURSIVE score_all(_)
score_all(rs) ==
    IF rs = << >> THEN << >>
    ELSE << [ Head(rs) EXCEPT !.engagement_rate = calculate_engagement_rate(Head(rs)) ] >>
            \o score_all(Tail(rs))

\* mutant: the views gate is strict
select_viral_strict_views(scored, cfg, posts) ==
    LET KeepPost(i) == scored[i].engagement_rate >= cfg.min_engagement_rate
        KeepReel(i) == /\ scored[i].views > cfg.min_views
                       /\ scored[i].engagement_rate >= cfg.min_engagement_rate
    IN  IF posts
        THEN SortReverse(Comprehension(scored, [i \in 1..Len(scored) |-> KeepPost(i)]),
                         [i \in 1..Len(scored) |-> scored[i].likes])
        ELSE SortReverse(Comprehension(scored, [i \in 1..Len(scored) |-> KeepReel(i)]),
                         [i \in 1..Len(scored) |-> scored[i].views])

\* mutant: the engagement comparison is turned round
select_viral_rate_below(scored, cfg, posts) ==
    LET KeepPost(i) == scored[i].engagement_rate <= cfg.min_engagement_rate
        KeepReel(i) == /\ scored[i].views >= cfg.min_views
                       /\ scored[i].engagement_rate <= cfg.min_engagement_rate
    IN  IF posts
        THEN SortReverse(Comprehension(scored, [i \in 1..Len(scored) |-> KeepPost(i)]),
                         [i \in 1..Len(scored) |-> scored[i].likes])
        ELSE SortReverse(Comprehension(scored, [i \in 1..Len(scored) |-> KeepReel(i)]),
                         [i \in 1..Len(scored) |-> scored[i].views])

\* the mode's list comprehension and sort over the scored records
select_viral(scored, cfg, posts) ==
    LET KeepPost(i) == scored[i].engagement_rate >= cfg.min_engagement_rate
        KeepReel(i) == /\ scored[i].views >= cfg.min_views
                       /\ scored[i].engagement_rate >= cfg.min_engagement_rate
    IN  IF posts
        THEN SortReverse(Comprehension(scored, [i \in 1..Len(scored) |-> KeepPost(i)]),
                         [i \in 1..Len(scored) |-> scored[i].likes])
        ELSE SortReverse(Comprehension(scored, [i \in 1..Len(scored) |-> KeepReel(i)]),
                         [i \in 1..Len(scored) |-> scored[i].views])

\* returns the records as the call leaves them (it mutates them in place)
\* and the result list, whose elements are references to records of rs
ScoredAndSelected(scored, cfg, posts) ==
    [ reels |-> scored, viral |-> select_viral(scored, cfg, posts) ]

\* mutant: the scoring loop is left out
filter_unscored(rs, cfg, posts) == ScoredAndSelected(rs, cfg, posts)

filter_viral_reels(rs, cfg, posts) == ScoredAndSelected(score_all(rs), cfg, posts)

(***************************************************************************)
(* Raw items: JSON values and the items the provider returns               *)
(* A JSON value is [kind, num, text]: an int holds num, a string holds     *)
(* text, an object (the "author" sub-object) holds num entries and, when   *)
(* it has one, text as its "username".                                     *)
(***************************************************************************)
JInt(n) == [kind |-> "int", num |-> n, text |-> ""]

JStr(t) == [kind |-> "str", num |-> 0, text |-> t]

JNone == [kind |-> "none", num |-> 0, text |-> ""]

JEmptyObject == [kind |-> "dict", num |-> 0, text |-> ""]

JAuthor(name) == [kind |-> "dict", num |-> 1, text |-> name]

\* bool(v)
JTruthy(v) ==
    CASE v.kind = "int"  -> v.num # 0
      [] v.kind = "str"  -> v.text # ""
      [] v.kind = "dict" -> v.num # 0
      [] OTHER           -> FALSE

\* mutant: a unless a is None, whatever its truth value
JOrNone(a, b) == IF a.kind = "none" THEN b ELSE a

\* a or b
JOr(a, b) == IF JTruthy(a) THEN a ELSE b

\* item.get(key, default)
ItemGet(item, key, default) == IF key \in DOMAIN item THEN item[key] ELSE default

(***************************************************************************)
(* datetime: a date is its day number since 1970-01-01, a datetime is      *)
(* [some, day, tod] with tod the second of the day (some = FALSE: None)    *)
(***************************************************************************)
SecondsPerDay == 86400

\* datetime.fromisoformat on the timestamp strings of the model, after
\* .replace("Z", "+00:00"); a string outside the table is no ISO-8601 text
\* and raises ValueError
IsoTable ==
    ("2024-01-02T00:00:00Z" :> [some |-> TRUE, day |-> 19724, tod |-> 0]) @@
    ("2024-01-02T23:59:59Z" :> [some |-> TRUE, day |-> 19724, tod |-> 86399])

fromisoformat(text) ==
    IF text \in DOMAIN IsoTable
    THEN [raised |-> FALSE, value |-> IsoTable[text]]
    ELSE [raised |-> TRUE, value |-> NoTime]

\* datetime.fromtimestamp(seconds): local time, utcoffset being the offset
\* of the zone the process runs in
fromtimestamp(seconds, utcoffset) ==
    [ some |-> TRUE,
      day  |-> (seconds + utcoffset) \div SecondsPerDay,
      tod  |-> (seconds + utcoffset) % SecondsPerDay ]

\* taken_at.date()
DateOf(taken_at) == taken_at.day

(***************************************************************************)
(* apify_client_wrapper.py: the normalisers                                *)
(* A normaliser returns [ok, reel]: ok = FALSE is the None it returns when *)
(* anything in its try block raised.                                       *)
(***************************************************************************)
\* the timestamp block of both normalisers
ParseTimestamp(item, utcoffset) ==
    LET timestamp == ItemGet(item, "timestamp", JNone)
    IN  IF ~JTruthy(timestamp) THEN [raised |-> FALSE, value |-> NoTime]
        ELSE IF timestamp.kind = "str" THEN fromisoformat(timestamp.text)
        ELSE IF timestamp.kind = "int"
        THEN [raised |-> FALSE, value |-> fromtimestamp(timestamp.num, utcoffset)]
        ELSE [raised |-> FALSE, value |-> NoTime]

\* ReelData(...) validates its arguments: the str fields take a str, the int
\* fields an int (the items of the model hold no value pydantic would
\* coerce); anything else raises ValidationError
Validates(username, shortcode, url, views, likes, comments, shares, caption) ==
    /\ \A v \in {username, shortcode, url, caption} : v.kind = "str"
    /\ \A v \in {views, likes, comments, shares} : v.kind = "int"

NoReel == ReelData("", "", "", NoTime, 0, 0, 0, 0, "")

\* the record built from resolved fields, or None when one of them raised
Built(raised, username, shortcode, url, taken_at, views, likes, comments, shares, caption) ==
    IF raised \/ ~Validates(username, shortcode, url, views, likes, comments, shares, caption)
    THEN [ok |-> FALSE, reel |-> NoReel]
    ELSE [ok |-> TRUE,
          reel |-> ReelData(username.text, shortcode.text, url.text, taken_at,
                            views.num, likes.num, comments.num, shares.num, caption.text)]

\* author.get("username", ""): only an object has .get
AuthorUsername(author) == IF author.num = 0 THEN JStr("") ELSE JStr(author.text)

_parse_item(item, utcoffset) ==
    LET author    == JOr(ItemGet(item, "author", JEmptyObject), JEmptyObject)
        username  == JOr(JOr(AuthorUsername(author), ItemGet(item, "ownerUsername", JStr(""))),
                         ItemGet(item, "username", JStr("")))
        shortcode == JOr(ItemGet(item, "shortCode", JStr("")), ItemGet(item, "code", JStr("")))
        given     == ItemGet(item, "url", JStr(""))
        url       == IF ~JTruthy(given) /\ JTruthy(shortcode)
                     THEN JStr("https://www.instagram.com/reel/" \o shortcode.text \o "/")
                     ELSE given
        taken_at  == ParseTimestamp(item, utcoffset)
        views     == JOr(JOr(JOr(JOr(ItemGet(item, "playsCount", JInt(0)),
                                     ItemGet(item, "videoPlayCount", JInt(0))),
                                 ItemGet(item, "viewsCount", JInt(0))),
                             ItemGet(item, "videoViewCount", JInt(0))),
                         JInt(0))
        likes     == JOr(JOr(ItemGet(item, "likesCount", JInt(0)), ItemGet(item, "likes", JInt(0))),
                         JInt(0))
        comments  == JOr(JOr(ItemGet(item, "commentsCount", JInt(0)),
                             ItemGet(item, "comments", JInt(0))),
                         JInt(0))
        shares    == JOr(ItemGet(item, "sharesCount", JInt(0)), JInt(0))
        caption   == JOr(ItemGet(item, "caption", JStr("")), JStr(""))
    IN  Built(author.kind # "dict" \/ taken_at.raised,
              username, shortcode, url, taken_at.value, views, likes, comments, shares, caption)

_parse_post_item(item, utcoffset) ==
    LET flat      == JOr(ItemGet(item, "ownerUsername", JStr("")), ItemGet(item, "username", JStr("")))
        author    == JOr(ItemGet(item, "author", JEmptyObject), JEmptyObject)
        username  == IF ~JTruthy(flat) THEN AuthorUsername(author) ELSE flat
        shortcode == JOr(ItemGet(item, "shortCode", JStr("")), ItemGet(item, "code", JStr("")))
        given     == ItemGet(item, "url", JStr(""))
        url       == IF ~JTruthy(given) /\ JTruthy(shortcode)
                     THEN JStr("https://www.instagram.com/p/" \o shortcode.text \o "/")
                     ELSE given
        taken_at  == ParseTimestamp(item, utcoffset)
        views     == JOr(JOr(ItemGet(item, "videoPlayCount", JInt(0)),
                             ItemGet(item, "videoViewCount", JInt(0))),
                         JInt(0))
        likes     == JOr(JOr(ItemGet(item, "likesCount", JInt(0)), ItemGet(item, "likes", JInt(0))),
                         JInt(0))
        comments  == JOr(JOr(ItemGet(item, "commentsCount", JInt(0)),
                             ItemGet(item, "comments", JInt(0))),
                         JInt(0))
        shares    == JOr(ItemGet(item, "sharesCount", JInt(0)), JInt(0))
        caption   == JOr(ItemGet(item, "caption", JStr("")), JStr(""))
    IN  Built((~JTruthy(flat) /\ author.kind # "dict") \/ taken_at.raised,
              username, shortcode, url, taken_at.value, views, likes, comments, shares, caption)

(***************************************************************************)
(* apify_client_wrapper.py: the loops of fetch_reels and fetch_posts over  *)
(* all_items.  They return the records kept; origin[k] is the position in  *)
(* all_items of the item record k was made from, and skipped holds the     *)
(* counters the functions log.                                             *)
(***************************************************************************)
\* mutant: the upper bound is exclusive
InWindowBeforeEnd(taken_at, start, end) ==
    /\ start <= DateOf(taken_at)
    /\ DateOf(taken_at) < end

\* start_date <= taken_at.date() <= end_date
InWindow(taken_at, start, end) ==
    /\ start <= DateOf(taken_at)
    /\ DateOf(taken_at) <= end

\* if reel.taken_at and not (start_date <= reel.taken_at.date() <= end_date):
\* a datetime is always truthy, None never
OutsideWindow(reel, start, end) == reel.taken_at.some /\ ~InWindow(reel.taken_at, start, end)

NothingFetched ==
    [reels |-> << >>, origin |-> << >>, skipped_type |-> 0, skipped_date |-> 0, skipped_parse |-> 0]

RECURSIVE ReelLoop(_, _, _, _, _, _)
ReelLoop(items, i, start, end, utcoffset, acc) ==
    IF i > Len(items) THEN acc
    ELSE LET parsed == _parse_item(items[i], utcoffset)
         IN  IF ~parsed.ok
             THEN ReelLoop(items, i + 1, start, end, utcoffset,
                           [acc EXCEPT !.skipped_parse = @ + 1])
             ELSE IF OutsideWindow(parsed.reel, start, end)
             THEN ReelLoop(items, i + 1, start, end, utcoffset,
                           [acc EXCEPT !.skipped_date = @ + 1])
             ELSE ReelLoop(items, i + 1, start, end, utcoffset,
                           [acc EXCEPT !.reels = Append(@, parsed.reel),
                                       !.origin = Append(@, i)])

RECURSIVE PostLoop(_, _, _, _, _, _)
PostLoop(items, i, start, end, utcoffset, acc) ==
    IF i > Len(items) THEN acc
    ELSE LET item_type == ItemGet(items[i], "type", JStr(""))
             parsed    == _parse_post_item(items[i], utcoffset)
         IN  IF item_type \in {JStr("Video"), JStr("video")}
             THEN PostLoop(items, i + 1, start, end, utcoffset,
                           [acc EXCEPT !.skipped_type = @ + 1])
             ELSE IF ~parsed.ok
             THEN PostLoop(items, i + 1, start, end, utcoffset,
                           [acc EXCEPT !.skipped_parse = @ + 1])
             ELSE IF OutsideWindow(parsed.reel, start, end)
             THEN PostLoop(items, i + 1, start, end, utcoffset,
                           [acc EXCEPT !.skipped_date = @ + 1])
             ELSE PostLoop(items, i + 1, start, end, utcoffset,
                           [acc EXCEPT !.reels = Append(@, parsed.reel),
                                       !.origin = Append(@, i)])

\* the actors the fetches call
ReelActor == "apify/instagram-reel-scraper"

PostActor == "apify/instagram-post-scraper"

\* the call fetch_reels issues for one username
ReelRequest(cfg, username) ==
    [ actor     |-> ReelActor,
      run_input |-> [username |-> <<username>>, resultsLimit |-> cfg.max_reels_per_profile] ]

\* the call fetch_posts issues for one username
PostRequest(cfg, username, start) ==
    [ actor     |-> PostActor,
      run_input |-> [username |-> <<username>>, resultsLimit |-> cfg.max_reels_per_profile,
                     onlyPostsNewerThan |-> start] ]

\* fetch_reels / fetch_posts once the username loop has gathered items
fetch_reels(items, start, end, offset) == ReelLoop(items, 1, start, end, offset, NothingFetched)

fetch_posts(items, start, end, offset) == PostLoop(items, 1, start, end, offset, NothingFetched)

(***************************************************************************)
(* Bounds and input domains                                                *)
(***************************************************************************)
\* longest record list handed to filter_viral_reels
MaxReels == 3

\* longest record list handed to enrich_with_followers
MaxEnriched == 2

Usernames == {"acct1", "acct2"}

\* follower counts a CSV row or a provider item can carry: int() accepts a
\* sign, and 0 is a value both sources can hold
FollowerValues == {-1, 0, 100}

ViewsDomain == {50, 100}

LikesDomain == {5, 20}

CommentsDomain == {3}

\* shares are counted by no formula of the program
SharesDomain == {9}

\* follower_count of a record after enrichment
EnrichedFollowers == {0, 160}

\* thresholds in the units of the records: views, and hundredths of a percent
Configs == { AppConfig(50, mv, mer) : mv \in {50, 100}, mer \in {500, 1438} }

DefaultConfig == AppConfig(50, 100000, 300)

SeqsUpTo(S, n) == UNION { [1..k -> S] : k \in 1..n }

\* records as enrichment leaves them: the inputs of filter_viral_reels
FilterInputs ==
    { [ ReelData("acct1", "", "", NoTime, v, l, c, s, "")
          EXCEPT !.follower_count = f ] :
        v \in ViewsDomain, l \in LikesDomain, c \in CommentsDomain, s \in SharesDomain,
        f \in EnrichedFollowers }

\* records as the normaliser leaves them: the inputs of enrich_with_followers
EnrichInputs ==
    { ReelData(u, "", "", NoTime, 100, 20, c, s, "") :
        u \in Usernames, c \in CommentsDomain, s \in SharesDomain }

\* the variables of a fetch, in a specification that fetches nothing
NoFetch ==
    /\ usernames = << >>
    /\ start_date = 0
    /\ end_date = 0
    /\ content_type = "Reels"
    /\ tz_offset = 0
    /\ requests = << >>
    /\ all_items = << >>
    /\ origin = << >>
    /\ skipped = [type |-> 0, date |-> 0, parse |-> 0]

\* the variables of a pipeline run, in a specification that runs no pipeline
NoRun ==
    /\ pipeline = "none"
    /\ lookup = "none"
    /\ exported = << >>

(***************************************************************************)
(* filter_viral_reels applied to a list of enriched records                *)
(***************************************************************************)
InitFilter ==
    /\ pc = "ready"
    /\ reels \in SeqsUpTo(FilterInputs, MaxReels)
    /\ config \in Configs
    /\ is_posts \in BOOLEAN
    /\ viral = << >>
    /\ api_followers = EmptyDict
    /\ csv_followers = EmptyDict
    /\ before = << >>
    /\ NoFetch
    /\ NoRun

FilterViralReels ==
    /\ pc = "ready"
    /\ LET out == filter_viral_reels(reels, config, is_posts)
       IN  /\ reels' = out.reels
           /\ viral' = out.viral
    /\ before' = reels
    /\ pc' = "filtered"
    /\ UNCHANGED <<config, is_posts, api_followers, csv_followers, fetchVars, runVars>>

NextFilter == FilterViralReels

SpecFilter == InitFilter /\ [][NextFilter]_vars

(***************************************************************************)
(* enrich_with_followers applied to a list of fresh records, once and then *)
(* once more                                                               *)
(***************************************************************************)
InitEnrich ==
    /\ pc = "ready"
    /\ reels \in SeqsUpTo(EnrichInputs, MaxEnriched)
    /\ config = DefaultConfig
    /\ is_posts = FALSE
    /\ viral = << >>
    /\ api_followers = EmptyDict
    /\ csv_followers = EmptyDict
    /\ before = << >>
    /\ NoFetch
    /\ NoRun

EnrichWithFollowers ==
    /\ pc \in {"ready", "enriched"}
    /\ \E api \in Dicts(Usernames, FollowerValues), csv \in Dicts(Usernames, FollowerValues) :
        /\ reels' = enrich_with_followers(reels, api, csv)
        /\ api_followers' = api
        /\ csv_followers' = csv
    /\ before' = reels
    /\ pc' = IF pc = "ready" THEN "enriched" ELSE "enriched again"
    /\ UNCHANGED <<viral, config, is_posts, fetchVars, runVars>>

NextEnrich == EnrichWithFollowers

SpecEnrich == InitEnrich /\ [][NextEnrich]_vars

(***************************************************************************)
(* Claims about filter_viral_reels (SpecFilter)                            *)
(***************************************************************************)
Sign(x) == IF x < 0 THEN 0 - 1 ELSE 1

\* n / d rounded to the nearest integer for d > 0, exactly; a tie goes to
\* the even neighbour, or away from zero
HalfEven(n, d) ==
    LET q == Abs(n) \div d
        r == Abs(n) % d
    IN  Sign(n) * (IF 2 * r > d \/ (2 * r = d /\ q % 2 = 1) THEN q + 1 ELSE q)

HalfAway(n, d) ==
    LET q == Abs(n) \div d
        r == Abs(n) % d
    IN  Sign(n) * (IF 2 * r >= d THEN q + 1 ELSE q)

\* round(100 * engagement / follower_count, 2) as Python evaluates that
\* expression: one correctly rounded division, then round()
PythonClaimed(engagement, follower_count) ==
    IF engagement = 0 THEN 0
    ELSE Sign(engagement) * PyRound2(FloatDiv(100 * Abs(engagement), follower_count))

\* the values round(100 * (likes + comments) / follower_count, 2) can stand
\* for, in hundredths: Python's evaluation, and the exact quotient rounded
\* by either rule the specification allows
ClaimedRates(reel) ==
    LET engagement == reel.likes + reel.comments
    IN  { PythonClaimed(engagement, reel.follower_count),
          HalfEven(10000 * engagement, reel.follower_count),
          HalfAway(10000 * engagement, reel.follower_count) }

\* C1: after filter_viral_reels returns, in either mode, every record of the
\* input list has engagement_rate = round(100 * (likes + comments) /
\* follower_count, 2) when follower_count > 0, and 0.0 when it is 0.
C1_EveryRecordScoredByFormula ==
    pc = "filtered" =>
        /\ Len(reels) = Len(before)
        /\ \A i \in 1..Len(reels) :
            /\ reels[i].follower_count > 0
                => reels[i].engagement_rate \in ClaimedRates(reels[i])
            /\ reels[i].follower_count = 0 => reels[i].engagement_rate = 0

\* C1, as far as it holds: shares never count and every record is scored;
\* the stored value is the exact quotient rounded to the nearest hundredth
\* wherever that quotient is no tie between two hundredths.
C1_ScoredOffTies ==
    pc = "filtered" =>
        \A i \in 1..Len(reels) :
            LET engagement == reels[i].likes + reels[i].comments
                f == reels[i].follower_count
            IN  /\ f > 0 /\ (20000 * engagement) % f # 0
                    => reels[i].engagement_rate = HalfEven(10000 * engagement, f)
                /\ f > 0 /\ (20000 * engagement) % f = 0
                    => reels[i].engagement_rate
                         \in {(10000 * engagement) \div f, (10000 * engagement) \div f + 1}
                /\ f <= 0 => reels[i].engagement_rate = 0

\* the mode's predicate on the record at position i of reels
Passes(i) ==
    IF is_posts
    THEN reels[i].engagement_rate >= config.min_engagement_rate
    ELSE /\ reels[i].views >= config.min_views
         /\ reels[i].engagement_rate >= config.min_engagement_rate

Occurrences(list, x) == Cardinality({ k \in 1..Len(list) : list[k] = x })

\* C2: the list filter_viral_reels returns holds exactly the input records
\* that satisfy the mode's predicate, each once: views >= min_views and
\* engagement_rate >= min_engagement_rate in reel mode, engagement_rate >=
\* min_engagement_rate alone in post mode.
C2_OutputIsExactlyThePredicate ==
    pc = "filtered" =>
        /\ Range(viral) \subseteq 1..Len(reels)
        /\ \A i \in 1..Len(reels) :
            Occurrences(viral, i) = IF Passes(i) THEN 1 ELSE 0

\* a post-mode result that holds a record below min_views and leaves another
\* record out
C2_Witness ==
    /\ pc = "filtered"
    /\ is_posts
    /\ \E i \in Range(viral) : reels[i].views < config.min_views
    /\ \E i \in 1..Len(reels) : i \notin Range(viral)

SortKey(i) == IF is_posts THEN reels[i].likes ELSE reels[i].views

\* C3: the output is non-increasing by views in reel mode and by likes in
\* post mode, and output records with equal key keep their input order.
C3_SortedAndStable ==
    pc = "filtered" =>
        \A a, b \in 1..Len(viral) :
            a < b => /\ SortKey(viral[a]) >= SortKey(viral[b])
                     /\ SortKey(viral[a]) = SortKey(viral[b]) => viral[a] < viral[b]

\* an output in which the sort moved a record forward and two records tie
C3_Witness ==
    /\ pc = "filtered"
    /\ \E a, b \in 1..Len(viral) : a < b /\ viral[a] > viral[b]
    /\ \E a, b \in 1..Len(viral) : a < b /\ SortKey(viral[a]) = SortKey(viral[b])

Raises(b, a) ==
    /\ b.min_views >= a.min_views
    /\ b.min_engagement_rate >= a.min_engagement_rate

\* C4: for a fixed input list and mode, the result under a config whose
\* min_views and min_engagement_rate are not lower is a subset of, and no
\* longer than, the result under the config of the call.
C4_RaisingThresholdsShrinks ==
    pc = "filtered" =>
        \A b \in Configs :
            Raises(b, config) =>
                LET raised == filter_viral_reels(before, b, is_posts).viral
                IN  /\ Range(raised) \subseteq Range(viral)
                    /\ Len(raised) <= Len(viral)

\* a raised config that keeps some of the result and drops some of it
C4_Witness ==
    /\ pc = "filtered"
    /\ \E b \in Configs :
        /\ Raises(b, config)
        /\ LET raised == filter_viral_reels(before, b, is_posts).viral
           IN  0 < Len(raised) /\ Len(raised) < Len(viral)

(***************************************************************************)
(* Claims about enrich_with_followers (SpecEnrich)                         *)
(***************************************************************************)
Enriched == pc \in {"enriched", "enriched again"}

\* C5: enrich_with_followers never changes the follower_count of a record
\* whose follower_count is nonzero on entry, and calling it again with the
\* same maps leaves every follower_count as the first call left it.
C5_NonzeroKeptAndIdempotent ==
    Enriched =>
        /\ \A i \in 1..Len(reels) :
            before[i].follower_count # 0
                => reels[i].follower_count = before[i].follower_count
        /\ enrich_with_followers(reels, api_followers, csv_followers) = reels

\* C5, as far as it holds: a positive follower_count is never changed, and
\* the call is idempotent.
C5_PositiveKeptAndIdempotent ==
    Enriched =>
        /\ \A i \in 1..Len(reels) :
            before[i].follower_count > 0
                => reels[i].follower_count = before[i].follower_count
        /\ enrich_with_followers(reels, api_followers, csv_followers) = reels

\* the value C6 names for a record of that username
ResolvedCount(username) ==
    IF username \in DOMAIN csv_followers /\ Truthy(csv_followers[username])
    THEN csv_followers[username]
    ELSE IF username \in DOMAIN api_followers /\ Truthy(api_followers[username])
    THEN api_followers[username]
    ELSE 0

\* C6: a record with follower_count = 0 gets the CSV map's value for its
\* username when that is present and truthy, otherwise the provider map's
\* value when that is present and truthy, otherwise it stays 0.
C6_CsvThenProviderThenZero ==
    Enriched =>
        /\ Len(reels) = Len(before)
        /\ \A i \in 1..Len(reels) :
            before[i].follower_count = 0
                => reels[i] = [before[i] EXCEPT
                                 !.follower_count = ResolvedCount(before[i].username)]

\* both maps hold a different nonzero count for one record's username and
\* the CSV value won, while another record's CSV value 0 fell through to the
\* provider's
C6_Witness ==
    /\ Enriched
    /\ \E i \in 1..Len(reels) :
        LET u == reels[i].username
        IN  /\ before[i].follower_count = 0
            /\ u \in DOMAIN csv_followers /\ u \in DOMAIN api_followers
            /\ Truthy(csv_followers[u]) /\ Truthy(api_followers[u])
            /\ csv_followers[u] # api_followers[u]
            /\ reels[i].follower_count = csv_followers[u]
    /\ \E i \in 1..Len(reels) :
        LET u == reels[i].username
        IN  /\ before[i].follower_count = 0
            /\ u \in DOMAIN csv_followers /\ u \in DOMAIN api_followers
            /\ csv_followers[u] = 0 /\ Truthy(api_followers[u])
            /\ reels[i].follower_count = api_followers[u]

(***************************************************************************)
(* fetch_reels and fetch_posts (SpecFetch): the provider answers the calls *)
(* of one fetch with the items all_items, or one of the calls raises       *)
(***************************************************************************)
\* most raw items the provider returns to one fetch
MaxItems == 3

ItemTypes == {"Video", "Sidecar"}

\* 1704196800 is 2024-01-02T12:00:00Z
TimestampValues ==
    { JStr("2024-01-02T00:00:00Z"), JStr("2024-01-02T23:59:59Z"), JStr("not-a-date"),
      JInt(1704196800) }

\* 2024-01-01 .. 2024-01-03
Dates == 19723..19725

\* UTC, and a zone twelve hours ahead of it
UtcOffsets == {0, 43200}

ItemOf(type) ==
    [ type           |-> JStr(type),
      ownerUsername  |-> JStr("acct1"),
      shortCode      |-> JStr("Cx1"),
      videoPlayCount |-> JInt(100),
      likesCount     |-> JInt(20),
      commentsCount  |-> JInt(3) ]

RawItems ==
    { ItemOf(t) : t \in ItemTypes }
        \cup { ItemOf(t) @@ ("timestamp" :> ts) : t \in ItemTypes, ts \in TimestampValues }

ItemLists == UNION { [1..k -> RawItems] : k \in 0..MaxItems }

InitFetch ==
    /\ pc = "ready"
    /\ usernames = <<"acct1", "acct2">>
    /\ start_date \in Dates
    /\ end_date \in Dates
    /\ start_date <= end_date
    /\ content_type \in {"Reels", "Posts / Carousels"}
    /\ tz_offset \in UtcOffsets
    /\ config = DefaultConfig
    /\ requests = << >>
    /\ all_items = << >>
    /\ origin = << >>
    /\ skipped = [type |-> 0, date |-> 0, parse |-> 0]
    /\ reels = << >>
    /\ viral = << >>
    /\ is_posts = FALSE
    /\ api_followers = EmptyDict
    /\ csv_followers = EmptyDict
    /\ before = << >>
    /\ NoRun

RequestOf(k) ==
    IF content_type = "Reels"
    THEN ReelRequest(config, usernames[k])
    ELSE PostRequest(config, usernames[k], start_date)

Fetched(out, items) ==
    /\ all_items' = items
    /\ reels' = out.reels
    /\ origin' = out.origin
    /\ skipped' = [type |-> out.skipped_type, date |-> out.skipped_date,
                   parse |-> out.skipped_parse]
    /\ requests' = [k \in 1..Len(usernames) |-> RequestOf(k)]
    /\ pc' = "fetched"
    /\ UNCHANGED <<viral, config, is_posts, api_followers, csv_followers, before>>
    /\ UNCHANGED <<usernames, start_date, end_date, content_type, tz_offset, runVars>>

FetchReels ==
    /\ pc = "ready"
    /\ content_type = "Reels"
    /\ \E items \in ItemLists :
        Fetched(fetch_reels(items, start_date, end_date, tz_offset), items)

FetchPosts ==
    /\ pc = "ready"
    /\ content_type = "Posts / Carousels"
    /\ \E items \in ItemLists :
        Fetched(fetch_posts(items, start_date, end_date, tz_offset), items)

\* the call for username k raises: the exception leaves the fetch
FetchRaises ==
    /\ pc = "ready"
    /\ \E k \in 1..Len(usernames) :
        requests' = [j \in 1..k |-> RequestOf(j)]
    /\ pc' = "raised"
    /\ UNCHANGED <<procVars, runVars>>
    /\ UNCHANGED <<usernames, start_date, end_date, content_type, tz_offset, all_items, origin,
                   skipped>>

NextFetch == FetchReels \/ FetchPosts \/ FetchRaises

SpecFetch == InitFetch /\ [][NextFetch]_vars

(***************************************************************************)
(* Claims about the fetches and the normalisers (SpecFetch)                *)
(***************************************************************************)
TypeOf(i) == ItemGet(all_items[i], "type", JStr("")).text

Admitted == Range(origin)

\* the items the other fetch admits from the same raw items
AdmittedByReels == Range(fetch_reels(all_items, start_date, end_date, tz_offset).origin)

AdmittedByPosts == Range(fetch_posts(all_items, start_date, end_date, tz_offset).origin)

\* C7: fetch_reels and fetch_posts admit disjoint sets of source items: an
\* item typed "Video" never appears in the fetch_posts output and an item
\* typed "Sidecar" never appears in the fetch_reels output.
C7_KindsAreExclusive ==
    pc = "fetched" =>
        /\ content_type = "Posts / Carousels" => \A i \in Admitted : TypeOf(i) # "Video"
        /\ content_type = "Reels" => \A i \in Admitted : TypeOf(i) # "Sidecar"
        /\ AdmittedByReels \cap AdmittedByPosts = {}

\* C7, as far as it holds: an item typed "Video" never appears in the
\* fetch_posts output.
C7_NoVideoAmongPosts ==
    pc = "fetched" /\ content_type = "Posts / Carousels" => \A i \in Admitted : TypeOf(i) # "Video"

\* what the fetch called makes of item i: the normaliser's result, and
\* whether the item reaches the normaliser at all
Normalised(i) ==
    IF content_type = "Reels"
    THEN _parse_item(all_items[i], tz_offset)
    ELSE _parse_post_item(all_items[i], tz_offset)

ReachesNormaliser(i) == content_type = "Posts / Carousels" => TypeOf(i) \notin {"Video", "video"}

\* C8: a normalised record that has a timestamp is kept iff start_date <=
\* taken_at.date() <= end_date, both bounds inclusive and by calendar date;
\* a normalised record without timestamp is always kept.
C8_KeptIffInWindowOrUntimed ==
    pc = "fetched" =>
        \A i \in 1..Len(all_items) :
            ReachesNormaliser(i) /\ Normalised(i).ok =>
                LET taken_at == Normalised(i).reel.taken_at
                IN  /\ taken_at.some =>
                        (i \in Admitted <=>
                            start_date <= taken_at.day /\ taken_at.day <= end_date)
                    /\ ~taken_at.some => i \in Admitted

\* one fetch keeps a record of the last second of end_date and a record
\* without timestamp, and drops a record the window leaves out
C8_Witness ==
    /\ pc = "fetched"
    /\ \E k \in 1..Len(reels) :
        /\ reels[k].taken_at.some
        /\ reels[k].taken_at.day = end_date
        /\ reels[k].taken_at.tod = SecondsPerDay - 1
    /\ \E k \in 1..Len(reels) : ~reels[k].taken_at.some
    /\ skipped.date > 0

Malformed(i) ==
    LET timestamp == ItemGet(all_items[i], "timestamp", JNone)
    IN  timestamp.kind = "str" /\ timestamp.text # "" /\ timestamp.text \notin DOMAIN IsoTable

\* C9: a raw item whose "timestamp" is a malformed string is still
\* normalised, to a record with taken_at = None; having no timestamp the
\* record is kept, so the item is behind a record of the output.
C9_MalformedTimestampStillNormalised ==
    pc = "fetched" =>
        \A i \in 1..Len(all_items) :
            Malformed(i) /\ ReachesNormaliser(i) =>
                /\ Normalised(i).ok
                /\ ~Normalised(i).reel.taken_at.some
                /\ \E k \in 1..Len(origin) : origin[k] = i /\ ~reels[k].taken_at.some

(***************************************************************************)
(* The pipeline (SpecRun): main() of main.py and the run handler of app.py,*)
(* one action per step of the run                                          *)
(***************************************************************************)
ProfileActor == "apify/instagram-profile-scraper"

\* the call fetch_follower_counts issues
FollowerRequest(users) == [actor |-> ProfileActor, run_input |-> [usernames |-> users]]

RECURSIVE CountsLoop(_, _, _)
CountsLoop(items, i, counts) ==
    IF i > Len(items) THEN counts
    ELSE LET username  == ItemGet(items[i], "username", JStr(""))
             followers == JOr(ItemGet(items[i], "followersCount", JInt(0)),
                              ItemGet(items[i], "followers", JInt(0)))
         IN  CountsLoop(items, i + 1,
                        IF JTruthy(username)
                        THEN (username.text :> followers.num) @@ counts
                        ELSE counts)

\* fetch_follower_counts once the provider has answered with items
fetch_follower_counts(items) == CountsLoop(items, 1, EmptyDict)

\* mutant: the lookup asks for every username of the run
users_all == usernames

\* [u for u in usernames if u not in csv_followers]
users_without_followers ==
    LET Without(u) == u \notin DOMAIN csv_followers
    IN  SelectSeq(usernames, Without)

\* what the profile actor reports of a user; it names the count of acct2
\* "followers"
ProfileItem(u) ==
    IF u = "acct1"
    THEN [username |-> JStr(u), followersCount |-> JInt(160)]
    ELSE [username |-> JStr(u), followersCount |-> JInt(0), followers |-> JInt(100)]

\* the answers to a lookup of users: profiles of some of them
ProfileResponses(users) ==
    { LET Known(u) == u \in S
          known    == SelectSeq(users, Known)
      IN  [k \in 1..Len(known) |-> ProfileItem(known[k])] : S \in SUBSET Range(users) }

\* a reel of acct1 taken on 2024-01-02, an undated carousel of acct2
RunItems ==
    { [ItemOf("Video") EXCEPT !.ownerUsername = JStr("acct1")]
          @@ ("timestamp" :> JStr("2024-01-02T00:00:00Z")),
      [ItemOf("Sidecar") EXCEPT !.ownerUsername = JStr("acct2")] }

RunItemLists == UNION { [1..k -> RunItems] : k \in 0..MaxItems }

RunUsernames == { << >>, <<"acct1">>, <<"acct1", "acct2">> }

\* 2024-01-02, 2024-01-03
RunDates == 19724..19725

RunCsvFollowers == { EmptyDict, "acct1" :> 100 }

RunConfigs == { AppConfig(50, 60, 0), AppConfig(50, 60, 500) }

InitRun ==
    /\ pc = "start"
    /\ pipeline \in {"cli", "ui"}
    /\ usernames \in RunUsernames
    /\ start_date \in RunDates
    /\ end_date \in RunDates
    /\ content_type \in IF pipeline = "cli" THEN {"Reels"} ELSE {"Reels", "Posts / Carousels"}
    /\ csv_followers \in RunCsvFollowers
    /\ config \in RunConfigs
    /\ tz_offset = 0
    /\ requests = << >>
    /\ all_items = << >>
    /\ origin = << >>
    /\ skipped = [type |-> 0, date |-> 0, parse |-> 0]
    /\ reels = << >>
    /\ viral = << >>
    /\ is_posts = FALSE
    /\ api_followers = EmptyDict
    /\ before = << >>
    /\ lookup = "none"
    /\ exported = << >>

\* mutant: the date window is not validated
ValidateUsernamesOnly ==
    /\ pc = "start"
    /\ pc' = IF usernames = << >> THEN "rejected" ELSE "fetching"
    /\ UNCHANGED <<procVars, fetchVars, runVars>>

\* main(): sys.exit(1) on start > end or no usernames; app.py: can_run
Validate ==
    /\ pc = "start"
    /\ pc' = IF start_date > end_date \/ usernames = << >> THEN "rejected" ELSE "fetching"
    /\ UNCHANGED <<procVars, fetchVars, runVars>>

\* one iteration of the username loop of the fetch: the provider answers
ContentCall ==
    /\ pc = "fetching"
    /\ Len(requests) < Len(usernames)
    /\ requests' = Append(requests, RequestOf(Len(requests) + 1))
    /\ \E items \in RunItemLists :
        /\ Len(all_items) + Len(items) <= MaxItems
        /\ all_items' = all_items \o items
    /\ UNCHANGED <<pc, procVars, runVars>>
    /\ UNCHANGED <<usernames, start_date, end_date, content_type, tz_offset, origin, skipped>>

\* one iteration of the username loop of the fetch: the call raises
ContentCallRaises ==
    /\ pc = "fetching"
    /\ Len(requests) < Len(usernames)
    /\ requests' = Append(requests, RequestOf(Len(requests) + 1))
    /\ pc' = "fetch failed"
    /\ UNCHANGED <<procVars, runVars>>
    /\ UNCHANGED <<usernames, start_date, end_date, content_type, tz_offset, all_items, origin,
                   skipped>>

\* the rest of the fetch, and the "if not reels" that follows it
ParseContent ==
    /\ pc = "fetching"
    /\ Len(requests) = Len(usernames)
    /\ LET out == IF content_type = "Reels"
                  THEN fetch_reels(all_items, start_date, end_date, tz_offset)
                  ELSE fetch_posts(all_items, start_date, end_date, tz_offset)
       IN  /\ reels' = out.reels
           /\ origin' = out.origin
           /\ skipped' = [type |-> out.skipped_type, date |-> out.skipped_date,
                          parse |-> out.skipped_parse]
           /\ pc' = IF out.reels = << >> THEN "no content" ELSE "fetched"
    /\ UNCHANGED <<viral, config, is_posts, api_followers, csv_followers, before, runVars>>
    /\ UNCHANGED <<usernames, start_date, end_date, content_type, tz_offset, requests, all_items>>

\* the follower lookup, when it is skipped or answered
FollowerLookup ==
    /\ pc = "fetched"
    /\ IF users_without_followers = << >>
       THEN /\ lookup' = "skipped"
            /\ UNCHANGED <<api_followers, requests>>
       ELSE /\ lookup' = "answered"
            /\ requests' = Append(requests, FollowerRequest(users_without_followers))
            /\ \E items \in ProfileResponses(users_without_followers) :
                api_followers' = fetch_follower_counts(items)
    /\ pc' = "looked up"
    /\ UNCHANGED <<reels, viral, config, is_posts, csv_followers, before, pipeline, exported>>
    /\ UNCHANGED <<usernames, start_date, end_date, content_type, tz_offset, all_items, origin,
                   skipped>>

\* the follower lookup raises: main() does not catch it, app.py warns
FollowerLookupRaises ==
    /\ pc = "fetched"
    /\ users_without_followers # << >>
    /\ requests' = Append(requests, FollowerRequest(users_without_followers))
    /\ lookup' = "failed"
    /\ pc' = IF pipeline = "cli" THEN "aborted" ELSE "looked up"
    /\ UNCHANGED <<procVars, pipeline, exported>>
    /\ UNCHANGED <<usernames, start_date, end_date, content_type, tz_offset, all_items, origin,
                   skipped>>

Enrich ==
    /\ pc = "looked up"
    /\ reels' = enrich_with_followers(reels, api_followers, csv_followers)
    /\ pc' = "followers set"
    /\ UNCHANGED <<viral, config, is_posts, api_followers, csv_followers, before>>
    /\ UNCHANGED <<fetchVars, runVars>>

\* app.py: the table of all fetched records scores each of them
ShowAllFetched ==
    /\ pc = "followers set"
    /\ pipeline = "ui"
    /\ reels' = score_all(reels)
    /\ pc' = "all shown"
    /\ UNCHANGED <<viral, config, is_posts, api_followers, csv_followers, before>>
    /\ UNCHANGED <<fetchVars, runVars>>

\* filter_viral_reels, and the "if not viral" that follows it
FilterViral ==
    /\ pc = IF pipeline = "ui" THEN "all shown" ELSE "followers set"
    /\ is_posts' = (content_type # "Reels")
    /\ LET out == filter_viral_reels(reels, config, content_type # "Reels")
       IN  /\ reels' = out.reels
           /\ viral' = out.viral
           /\ pc' = IF out.viral = << >> THEN "no viral" ELSE "scored"
    /\ before' = reels
    /\ UNCHANGED <<config, api_followers, csv_followers, fetchVars, runVars>>

\* main(): export_to_sheets(viral, config); app.py: the table of results
Export ==
    /\ pc = "scored"
    /\ exported' = [k \in 1..Len(viral) |-> reels[viral[k]]]
    /\ pc' = "done"
    /\ UNCHANGED <<procVars, fetchVars, pipeline, lookup>>

NextRun ==
    \/ Validate
    \/ ContentCall
    \/ ContentCallRaises
    \/ ParseContent
    \/ FollowerLookup
    \/ FollowerLookupRaises
    \/ Enrich
    \/ ShowAllFetched
    \/ FilterViral
    \/ Export

SpecRun == InitRun /\ [][NextRun]_vars

(***************************************************************************)
(* Claims about the pipeline (SpecRun)                                     *)
(***************************************************************************)
\* the positions of a run at which enrichment is behind it
AfterEnrichment == {"followers set", "all shown", "scored", "no viral", "done"}

Uncovered(reel) == Get(csv_followers, reel.username, 0) = 0

Degraded ==
    /\ pc # "aborted"
    /\ api_followers = EmptyDict
    /\ pc \in AfterEnrichment =>
        \A k \in 1..Len(reels) : Uncovered(reels[k]) => reels[k].follower_count = 0

\* C10: in every run (main() and the run handler of the UI), if the follower
\* lookup fails after content was fetched, the run does not abort: it goes
\* on to enrichment and scoring with an empty provider map, follower_count
\* stays 0 for every record the CSV override does not cover, and the
\* results are still produced.
C10_FollowerFailureDegrades == lookup = "failed" => Degraded

\* C10, as far as it holds: the run handler of the UI degrades so.
C10_UiFollowerFailureDegrades == pipeline = "ui" /\ lookup = "failed" => Degraded

\* the inputs of the run are invalid
Invalid == start_date > end_date \/ usernames = << >>

\* C11: in a run where start_date is after end_date or the username list is
\* empty, the run is rejected before any provider call: at no point of the
\* run has a content or follower request been issued or anything been
\* exported, and the run goes nowhere but to its rejection.
C11_InvalidRunCallsNothing ==
    Invalid =>
        /\ pc \in {"start", "rejected"}
        /\ requests = << >>
        /\ exported = << >>

\* a run rejected for its dates, with usernames to fetch
C11_Witness ==
    /\ pc = "rejected"
    /\ start_date > end_date
    /\ usernames # << >>
    /\ requests = << >>

\* the usernames the CSV gives no follower count
Uncounted ==
    LET NotInCsv(u) == u \notin DOMAIN csv_followers
    IN  SelectSeq(usernames, NotInCsv)

\* request k is the content request of the k-th username, and of it alone
IsContentRequestOf(k) ==
    /\ requests[k].actor = IF content_type = "Reels" THEN ReelActor ELSE PostActor
    /\ requests[k].run_input.username = <<usernames[k]>>
    /\ requests[k].run_input.resultsLimit = config.max_reels_per_profile

ContentRequestsInOrder ==
    \A k \in 1..Len(requests) : k <= Len(usernames) => IsContentRequestOf(k)

\* the positions of a run at which the follower lookup is behind it
AfterLookup == {"looked up"} \cup AfterEnrichment

\* the positions at which a run ends without an exception
Completed == {"no content", "no viral", "done"}

\* C12, as stated: a run over n usernames issues exactly one content
\* request per username, in list order, each carrying that one username and
\* resultsLimit = max_reels_per_profile, followed by the follower lookup,
\* issued once in total for the run.
C12_LookupIssuedOnce ==
    pc \in Completed =>
        /\ ContentRequestsInOrder
        /\ Len(requests) = Len(usernames) + 1
        /\ requests[Len(requests)].actor = ProfileActor

\* C12, amended: the requests issued are, in order, one content request per
\* username, each carrying that one username and resultsLimit =
\* max_reels_per_profile, then at most one follower lookup; the lookup is
\* issued only after all n content requests, only when records were fetched
\* and some username has no follower count in the CSV, and then exactly
\* once, for those usernames.
C12_ContentPerUserThenOneLookupAtMost ==
    LET n == Len(usernames)
    IN  /\ ContentRequestsInOrder
        /\ Len(requests) <= n + 1
        /\ Len(requests) = n + 1 =>
            /\ requests[n + 1].actor = ProfileActor
            /\ requests[n + 1].run_input.usernames = Uncounted
            /\ Uncounted # << >>
            /\ reels # << >>
        /\ pc \in {"fetched", "no content"} => Len(requests) = n
        /\ pc \in AfterLookup =>
            Len(requests) = n + IF Uncounted = << >> THEN 0 ELSE 1

\* a finished run over two usernames, the CSV counting one: two content
\* requests and one lookup
C12_Witness ==
    /\ pc = "done"
    /\ Len(usernames) = 2
    /\ Len(requests) = 3
    /\ Len(Uncounted) = 1

(***************************************************************************)
(* The normalisers inside the fetches (SpecNormalise): one fetch whose     *)
(* provider returns a single item, drawn from items that vary the metric   *)
(* fields and the identifying fields                                       *)
(***************************************************************************)
\* items with the field key absent or holding one of vals
Opt(items, key, vals) == items \cup { it @@ (key :> v) : it \in items, v \in vals }

Identified(type) ==
    [type |-> JStr(type), ownerUsername |-> JStr("acct1"), shortCode |-> JStr("Cx1")]

ViewsItems(type) ==
    Opt(Opt(Opt(Opt({Identified(type)},
                    "playsCount", {JInt(0), JInt(11), JInt(-7)}),
                "videoPlayCount", {JInt(0), JInt(12)}),
            "viewsCount", {JInt(0), JInt(13)}),
        "videoViewCount", {JInt(0), JInt(14)})

LikesItems(type) ==
    Opt(Opt({Identified(type)},
            "likesCount", {JNone, JInt(0), JInt(21), JInt(-5)}),
        "likes", {JInt(0), JInt(42)})

CommentsItems(type) ==
    Opt(Opt(Opt({Identified(type)},
                "commentsCount", {JInt(0), JInt(31)}),
            "comments", {JInt(0), JInt(32), JInt(-3)}),
        "sharesCount", {JNone, JInt(0), JInt(41), JInt(-2)})

IdentityItems(type) ==
    Opt(Opt(Opt(Opt(Opt(Opt({[type |-> JStr(type), likesCount |-> JInt(20)]},
                            "author", {JEmptyObject, JAuthor("acct2")}),
                        "ownerUsername", {JStr(""), JStr("acct1")}),
                    "username", {JStr("acct3")}),
                "shortCode", {JStr(""), JStr("Cx1")}),
            "code", {JStr("Cy2")}),
        "url", {JStr("https://www.instagram.com/reel/Cz3/")})

NormaliserItems(type) ==
    ViewsItems(type) \cup LikesItems(type) \cup CommentsItems(type) \cup IdentityItems(type)

InitNormalise ==
    /\ pc = "ready"
    /\ usernames = <<"acct1">>
    /\ start_date = 19724
    /\ end_date = 19724
    /\ content_type \in {"Reels", "Posts / Carousels"}
    /\ tz_offset = 0
    /\ config = DefaultConfig
    /\ requests = << >>
    /\ all_items = << >>
    /\ origin = << >>
    /\ skipped = [type |-> 0, date |-> 0, parse |-> 0]
    /\ reels = << >>
    /\ viral = << >>
    /\ is_posts = FALSE
    /\ api_followers = EmptyDict
    /\ csv_followers = EmptyDict
    /\ before = << >>
    /\ NoRun

\* fetch_reels, the reel actor returning one item
FetchOneReel ==
    /\ pc = "ready"
    /\ content_type = "Reels"
    /\ \E item \in NormaliserItems("Video") :
        Fetched(fetch_reels(<<item>>, start_date, end_date, tz_offset), <<item>>)

\* fetch_posts, the post actor returning one item
FetchOnePost ==
    /\ pc = "ready"
    /\ content_type = "Posts / Carousels"
    /\ \E item \in NormaliserItems("Sidecar") :
        Fetched(fetch_posts(<<item>>, start_date, end_date, tz_offset), <<item>>)

NextNormalise == FetchOneReel \/ FetchOnePost

SpecNormalise == InitNormalise /\ [][NextNormalise]_vars

(***************************************************************************)
(* Claims about the normalisers (SpecNormalise)                            *)
(***************************************************************************)
\* the first value present and truthy among the fields named, else 0
RECURSIVE FirstTruthy(_, _)
FirstTruthy(item, fields) ==
    IF fields = << >> THEN 0
    ELSE IF Head(fields) \in DOMAIN item /\ JTruthy(item[Head(fields)])
         THEN item[Head(fields)].num
         ELSE FirstTruthy(item, Tail(fields))

ViewsCandidates ==
    IF content_type = "Reels"
    THEN <<"playsCount", "videoPlayCount", "viewsCount", "videoViewCount">>
    ELSE <<"videoPlayCount", "videoViewCount">>

\* C13: each metric of a normalised record is the first value present and
\* truthy in the metric's ordered candidate fields (views: playsCount,
\* videoPlayCount, viewsCount, videoViewCount in the reel schema; likes:
\* likesCount, likes; comments: commentsCount, comments; shares:
\* sharesCount), and 0 when none is truthy; likesCount = 0 with likes = 42
\* gives likes = 42.
C13_MetricsAreFirstTruthy ==
    pc = "fetched" =>
        \A k \in 1..Len(reels) :
            LET item == all_items[origin[k]]
            IN  /\ reels[k].views = FirstTruthy(item, ViewsCandidates)
                /\ reels[k].likes = FirstTruthy(item, <<"likesCount", "likes">>)
                /\ reels[k].comments = FirstTruthy(item, <<"commentsCount", "comments">>)
                /\ reels[k].shares = FirstTruthy(item, <<"sharesCount">>)

\* the record of an item with likesCount = 0 and likes = 42
C13_Witness ==
    /\ pc = "fetched"
    /\ Len(reels) = 1
    /\ ItemGet(all_items[1], "likesCount", JNone) = JInt(0)
    /\ ItemGet(all_items[1], "likes", JNone) = JInt(42)
    /\ reels[1].likes = 42

FieldTruthy(item, key) == key \in DOMAIN item /\ JTruthy(item[key])

\* no username and no shortcode can be resolved from item i
Unidentified(i) ==
    LET item == all_items[i]
    IN  /\ ~("author" \in DOMAIN item /\ item["author"].kind = "dict" /\ item["author"].text # "")
        /\ ~FieldTruthy(item, "ownerUsername")
        /\ ~FieldTruthy(item, "username")
        /\ ~FieldTruthy(item, "shortCode")
        /\ ~FieldTruthy(item, "code")

\* C14: a raw item from which neither a username nor a shortcode can be
\* resolved is unparsable: it is behind no record of the output of
\* fetch_reels or fetch_posts.
C14_UnidentifiedNeverAdmitted ==
    pc = "fetched" => \A i \in Admitted : ~Unidentified(i)

\* C15: views, likes, comments and shares of every record are >= 0, for any
\* raw item with integer-valued metric fields (negative ones included) that
\* the normaliser accepts.
C15_MetricsNeverNegative ==
    \A k \in 1..Len(reels) :
        /\ reels[k].views >= 0
        /\ reels[k].likes >= 0
        /\ reels[k].comments >= 0
        /\ reels[k].shares >= 0

\* the positions of a run at which the scoring of filter_viral_reels is
\* behind it
AfterScoring == {"scored", "no viral", "done"}

\* C16: in both pipelines follower enrichment is complete before the scoring
\* of filter_viral_reels (every record entered it with its resolved
\* follower_count), no step after that scoring changes follower_count, likes
\* or comments, and every record handed to the export or display stage has
\* the engagement_rate recomputed from its current likes, comments and
\* follower_count.
C16_EnrichedThenScoredThenUntouched ==
    pc \in AfterScoring =>
        /\ enrich_with_followers(before, api_followers, csv_followers) = before
        /\ \A i \in 1..Len(before) :
            lookup = "answered" /\ before[i].username \in DOMAIN api_followers
                /\ api_followers[before[i].username] > 0
                => before[i].follower_count > 0
        /\ Len(reels) = Len(before)
        /\ \A i \in 1..Len(reels) :
            /\ reels[i].follower_count = before[i].follower_count
            /\ reels[i].likes = before[i].likes
            /\ reels[i].comments = before[i].comments
        /\ \A k \in 1..Len(exported) :
            /\ exported[k] = reels[viral[k]]
            /\ exported[k].engagement_rate = calculate_engagement_rate(exported[k])

\* a finished run hands over a record whose follower_count the lookup gave
\* and whose engagement_rate is positive
C16_Witness ==
    /\ pc = "done"
    /\ lookup = "answered"
    /\ \E k \in 1..Len(exported) :
        /\ exported[k].username \notin DOMAIN csv_followers
        /\ exported[k].follower_count > 0
        /\ exported[k].engagement_rate > 0

====
